---- MODULE Spec2Model ----
(***************************************************************************)
(* Chunk producer of a Merk tree (src/src/merk/chunks.rs).                 *)
(*                                                                         *)
(* A snapshot of the store is a sorted run of entries 1..n; entry i has    *)
(* key KeyAt(i) and value ValueAt(i), and the tree over the entries is the *)
(* balanced search tree whose root is the middle entry.  Producers are     *)
(* built over the snapshot by new(), serve chunk(i) and len(), and are     *)
(* turned into an iterator by into_iter(), which serves next() and         *)
(* size_hint().  A run has one producer under Spec and two under SpecPair, *)
(* where calls on one interleave with calls on the other.                  *)
(***************************************************************************)
EXTENDS Integers, Sequences, FiniteSets

\* Largest number of entries of a snapshot.
MaxEntries == 7
\* Largest depth at which the trunk builder cuts the tree.
MaxCut == 2
\* How far past len() a requested index may lie.
MaxOver == 2
\* How many next() calls are followed after the iterator is exhausted.
MaxNones == 2

Producers == {1, 2}

VARIABLES
    sessions,          \* the producers this run uses
    faulty,            \* whether the store below the producers may fail in this run
    merk,              \* the snapshot: [n |-> entries, cut |-> depth of the trunk's cut layer, 0 = no cut]
    st,                \* per producer: "none" | "producer" | "iter" | "panicked"
    trunk,             \* ChunkProducer.trunk
    chunk_boundaries,  \* ChunkProducer.chunk_boundaries
    raw_iter,          \* ChunkProducer.raw_iter: position 1..n of the entry it is on, n+1 = not valid
    index,             \* ChunkProducer.index
    ret,               \* per producer: what its last call returned
    walked,            \* history: outcome of the trunk walk of the last new(): "none" | "ok" | "fail"
    failed,            \* history: a failed leaf chunk build left the cursor where it is
    chunked,           \* history: chunk() was called on this producer with an index in bounds
    start,             \* history: index when into_iter() was called
    yields,            \* history: number of Some items next() returned
    nones,             \* history: number of None items next() returned (capped)
    built              \* history: outcomes of the leaf builds the last call ran, in order

vars == <<sessions, faulty, merk, st, trunk, chunk_boundaries, raw_iter, index, ret,
          walked, failed, chunked, start, yields, nones, built>>

----------------------------------------------------------------------------
(* The snapshot: entries, the tree over them, hashes.                      *)

KeyAt(i) == 2 * i
ValueAt(i) == 2 * i + 1

\* Root of the subtree holding entries lo..hi.
Mid(lo, hi) == (lo + hi) \div 2

\* Hash of the subtree holding entries lo..hi: collision free.
NodeHash(lo, hi) == 100 * lo + hi

RECURSIVE Pow2(_)
Pow2(k) == IF k = 0 THEN 1 ELSE 2 * Pow2(k - 1)

\* Proof operators (Op) and nodes (Node).
PushKV(k, v) == [op |-> "Push", node |-> "KV", key |-> k, value |-> v, hash |-> 0]
PushHash(h)  == [op |-> "Push", node |-> "Hash", key |-> 0, value |-> 0, hash |-> h]
Parent       == [op |-> "Parent", node |-> "", key |-> 0, value |-> 0, hash |-> 0]
Child        == [op |-> "Child", node |-> "", key |-> 0, value |-> 0, hash |-> 0]

\* The node of entry k in the subtree over lo..hi: whether it has a left
\* child, and the entry of its right child (0 = none).
RECURSIVE NodeAt(_, _, _)
NodeAt(k, lo, hi) ==
    LET m == Mid(lo, hi) IN
    IF k = m THEN [left |-> lo <= m - 1,
                   right |-> IF m + 1 <= hi THEN Mid(m + 1, hi) ELSE 0]
    ELSE IF k < m THEN NodeAt(k, lo, m - 1)
    ELSE NodeAt(k, m + 1, hi)

\* Trunk walk below one node: nodes above the cut are pushed with key and
\* value, a subtree at the cut is pushed as its hash.
RECURSIVE TraverseForTrunk(_, _, _)
TraverseForTrunk(lo, hi, remaining_depth) ==
    IF lo > hi THEN <<>>
    ELSE IF remaining_depth = 0 THEN <<PushHash(NodeHash(lo, hi))>>
    ELSE LET m == Mid(lo, hi) IN
         TraverseForTrunk(lo, m - 1, remaining_depth - 1)
         \o <<PushKV(KeyAt(m), ValueAt(m))>>
         \o (IF lo <= m - 1 THEN <<Parent>> ELSE <<>>)
         \o (IF m + 1 <= hi
             THEN TraverseForTrunk(m + 1, hi, remaining_depth - 1) \o <<Child>>
             ELSE <<>>)

\* walker.create_trunk_proof(): the trunk and has_more.
CreateTrunkProof(m) ==
    IF m.cut = 0
    THEN [trunk |-> TraverseForTrunk(1, m.n, m.n + 1), has_more |-> FALSE]
    ELSE [trunk |-> TraverseForTrunk(1, m.n, m.cut), has_more |-> TRUE]

\* The snapshots: every node above the cut layer has both children.
Snapshots ==
    {m \in [n : 0..MaxEntries, cut : 0..MaxCut] :
        m.cut > 0 => m.n >= 2 * Pow2(m.cut) - 1}

----------------------------------------------------------------------------
(* The sorted cursor (DBRawIterator) over a snapshot of n entries.         *)

Valid(pos, n) == pos >= 1 /\ pos <= n

SeekToFirst(n) == 1

\* First entry whose key is >= key.
Seek(key, n) ==
    IF \E i \in 1..n : KeyAt(i) >= key
    THEN CHOOSE i \in 1..n : KeyAt(i) >= key /\ \A j \in 1..(i - 1) : KeyAt(j) < key
    ELSE n + 1

RawIterNext(pos, n) == IF Valid(pos, n) THEN pos + 1 ELSE pos

----------------------------------------------------------------------------
(* Encoding of an operation sequence.                                      *)

EncodeOp(o) ==
    IF o.op = "Parent" THEN <<16>>
    ELSE IF o.op = "Child" THEN <<17>>
    ELSE IF o.node = "Hash" THEN <<1, o.hash>>
    ELSE <<3, 1, o.key, 0, 1, o.value>>

RECURSIVE Encode(_)
Encode(ops) ==
    IF ops = <<>> THEN <<>> ELSE EncodeOp(Head(ops)) \o Encode(Tail(ops))

RECURSIVE Decode(_)
Decode(bytes) ==
    IF bytes = <<>> THEN <<>>
    ELSE IF bytes[1] = 16 THEN <<Parent>> \o Decode(Tail(bytes))
    ELSE IF bytes[1] = 17 THEN <<Child>> \o Decode(Tail(bytes))
    ELSE IF bytes[1] = 1 THEN <<PushHash(bytes[2])>> \o Decode(SubSeq(bytes, 3, Len(bytes)))
    ELSE <<PushKV(bytes[3], bytes[6])>> \o Decode(SubSeq(bytes, 7, Len(bytes)))

----------------------------------------------------------------------------
(* The leaf chunk builder.                                                 *)

NoKey == 0

\* Pops of the stack of pending right children once entry `key` closes them.
RECURSIVE PopClosed(_, _)
PopClosed(stack, key) ==
    IF stack = <<>> \/ key < stack[Len(stack)] THEN [stack |-> stack, ops |-> <<>>]
    ELSE LET r == PopClosed(SubSeq(stack, 1, Len(stack) - 1), key) IN
         [stack |-> r.stack, ops |-> <<Child>> \o r.ops]

\* The scan of get_next_chunk from cursor position pos up to (excluding)
\* end_key, or to the end of the snapshot when end_key is NoKey.
RECURSIVE ScanChunk(_, _, _, _, _)
ScanChunk(pos, end_key, stack, chunk, n) ==
    IF ~Valid(pos, n) \/ (end_key # NoKey /\ KeyAt(pos) = end_key)
    THEN [chunk |-> chunk, pos |-> pos]
    ELSE LET node == NodeAt(pos, 1, n)
             c1 == chunk \o <<PushKV(KeyAt(pos), ValueAt(pos))>>
                         \o (IF node.left THEN <<Parent>> ELSE <<>>)
             popped == PopClosed(stack, KeyAt(pos))
         IN IF node.right # 0
            THEN ScanChunk(pos + 1, end_key, Append(stack, KeyAt(node.right)), c1, n)
            ELSE ScanChunk(pos + 1, end_key, popped.stack, c1 \o popped.ops, n)

\* get_next_chunk(iter, end_key): the operations of the entries from the
\* cursor up to (excluding) end_key; the cursor is left past end_key.
GetNextChunk(pos, end_key, n) ==
    LET s == ScanChunk(pos, end_key, <<>>, <<>>, n) IN
    [chunk |-> s.chunk, pos |-> RawIterNext(s.pos, n), scanned |-> s.pos]

----------------------------------------------------------------------------
(* ChunkProducer.                                                          *)

\* What a call returned.  kind: "ok" (bytes), "oob" (index out of bounds),
\* "builderr" (the leaf chunk builder failed), "walkerr" (the trunk walk
\* failed), "none" (the iterator's None), "num" (len), "hint" (size_hint:
\* lower bound num, upper bound Some(hi)), "panic", "init" (no call yet).
Ret(op, idx, kind, bytes, num, hi) ==
    [op |-> op, idx |-> idx, kind |-> kind, bytes |-> bytes, num |-> num, hi |-> hi]

NoRet == Ret("", 0, "init", <<>>, 0, 0)

\* merk.walk(..): no walker for an empty tree, else the trunk proof.
Walk(m) ==
    IF m.n = 0 THEN [trunk |-> <<>>, has_more |-> FALSE]
    ELSE CreateTrunkProof(m)

\* The keys of the Push(KV) operations of ops, in order.
RECURSIVE KVKeys(_)
KVKeys(ops) ==
    IF ops = <<>> THEN <<>>
    ELSE (IF Head(ops).op = "Push" /\ Head(ops).node = "KV"
          THEN <<Head(ops).key>> ELSE <<>>) \o KVKeys(Tail(ops))

\* Boundary keys collected whether or not the walk elided a subtree.
ChunkBoundariesAlways(t, has_more) == KVKeys(t)

ChunkBoundaries(t, has_more) == IF has_more THEN KVKeys(t) ELSE <<>>

\* len() that counts one chunk per boundary key.
lenOffByOne(boundaries) ==
    LET boundaries_len == Len(boundaries) IN
    IF boundaries_len = 0 THEN 1 ELSE boundaries_len + 1

len(boundaries) ==
    LET boundaries_len == Len(boundaries) IN
    IF boundaries_len = 0 THEN 1 ELSE boundaries_len + 2

\* The bounds check of chunk() that lets index == len() through.
OutOfBoundsOffByOne(i, length) == i > length

\* The bounds check of chunk(): index >= self.len().
OutOfBounds(i, length) == i >= length

\* new() that goes on with an empty trunk when the trunk walk fails.
newSwallowsWalkError(m, walk_fails) ==
    LET w == IF walk_fails THEN [trunk |-> <<>>, has_more |-> FALSE] ELSE Walk(m) IN
    [ok |-> TRUE,
     trunk |-> w.trunk,
     chunk_boundaries |-> ChunkBoundaries(w.trunk, w.has_more),
     raw_iter |-> SeekToFirst(m.n),
     index |-> 0]

\* new() that leaves the cursor where no entry is.
newNoSeek(m, walk_fails) ==
    IF walk_fails
    THEN [ok |-> FALSE, trunk |-> <<>>, chunk_boundaries |-> <<>>,
          raw_iter |-> 0, index |-> 0]
    ELSE LET w == Walk(m) IN
         [ok |-> TRUE,
          trunk |-> w.trunk,
          chunk_boundaries |-> ChunkBoundaries(w.trunk, w.has_more),
          raw_iter |-> m.n + 1,
          index |-> 0]

\* ChunkProducer::new(merk): the error of the walk, or the producer.
new(m, walk_fails) ==
    IF walk_fails
    THEN [ok |-> FALSE, trunk |-> <<>>, chunk_boundaries |-> <<>>,
          raw_iter |-> 0, index |-> 0]
    ELSE LET w == Walk(m) IN
         [ok |-> TRUE,
          trunk |-> w.trunk,
          chunk_boundaries |-> ChunkBoundaries(w.trunk, w.has_more),
          raw_iter |-> SeekToFirst(m.n),
          index |-> 0]

\* chunk(i) that leaves the cursor where the last call left it.
ChunkSeekStale(i, boundaries, pos, n) == pos

\* chunk(i) that seeks to the preceding boundary key without stepping past it.
ChunkSeekNoAdvance(i, boundaries, pos, n) ==
    IF i = 0 \/ i = 1 THEN SeekToFirst(n)
    ELSE Seek(boundaries[i - 1], n)

\* chunk(i) that seeks to boundary index - 1 instead of index - 2.
ChunkSeekWrongBoundary(i, boundaries, pos, n) ==
    IF i = 0 \/ i = 1 THEN SeekToFirst(n)
    ELSE IF i <= Len(boundaries) THEN RawIterNext(Seek(boundaries[i], n), n)
    ELSE n + 1

\* chunk(i) that seeks for the indices above 1 only.
ChunkSeekSkipsFirst(i, boundaries, pos, n) ==
    IF i = 0 \/ i = 1 THEN pos
    ELSE RawIterNext(Seek(boundaries[i - 1], n), n)

\* The cursor after chunk(i) has repositioned it.
ChunkSeek(i, boundaries, pos, n) ==
    IF i = 0 \/ i = 1 THEN SeekToFirst(n)
    ELSE LET preceding_key == boundaries[i - 1] IN
         RawIterNext(Seek(preceding_key, n), n)

\* next_chunk that takes the boundary after the one that ends the chunk.
EndKeyNext(boundaries, idx) ==
    IF idx + 1 <= Len(boundaries) THEN boundaries[idx + 1] ELSE NoKey

\* next_chunk that takes the boundary before the one that ends the chunk.
EndKeyPrev(boundaries, idx) ==
    IF idx >= 2 /\ idx - 1 <= Len(boundaries) THEN boundaries[idx - 1] ELSE NoKey

\* next_chunk that builds every leaf chunk to the end of the tree.
EndKeyNone(boundaries, idx) == NoKey

\* chunk_boundaries.get(index - 1) of next_chunk.
EndKey(boundaries, idx) ==
    IF idx >= 1 /\ idx <= Len(boundaries) THEN boundaries[idx] ELSE NoKey

\* The leaf chunk builder succeeded.
NoFail == [fail |-> FALSE, pos |-> 0]

\* The outcomes of one leaf chunk build started at pos: it succeeds, or it
\* fails having moved the cursor to any entry of the range it scans.
BuildOutcomes(pos, end_key, n, may_fail) ==
    {NoFail}
    \cup IF may_fail
         THEN {[fail |-> TRUE, pos |-> q] : q \in pos..GetNextChunk(pos, end_key, n).pos}
         ELSE {}

\* next_chunk that drops the boundary key it has built up to.
next_chunkConsumesBoundary(t, boundaries, pos, idx, n, io) ==
    IF idx = 0
    THEN [index |-> idx + 1, raw_iter |-> pos, kind |-> "ok", bytes |-> Encode(t),
          trunk |-> t, chunk_boundaries |-> boundaries, built |-> <<>>]
    ELSE IF idx >= len(boundaries)
    THEN [index |-> idx, raw_iter |-> pos, kind |-> "panic", bytes |-> <<>>,
          trunk |-> t, chunk_boundaries |-> boundaries, built |-> <<>>]
    ELSE LET end_key == EndKey(boundaries, idx)
             g == GetNextChunk(pos, end_key, n)
         IN IF io.fail
            THEN [index |-> idx + 1, raw_iter |-> io.pos, kind |-> "builderr",
                  bytes |-> <<>>, trunk |-> t,
                  chunk_boundaries |-> boundaries, built |-> <<"err">>]
            ELSE [index |-> idx + 1, raw_iter |-> g.pos, kind |-> "ok",
                  bytes |-> Encode(g.chunk), trunk |-> t,
                  chunk_boundaries |-> SubSeq(boundaries, 2, Len(boundaries)),
                  built |-> <<"ok">>]

\* next_chunk that runs a failed leaf build a second time.
next_chunkRetries(t, boundaries, pos, idx, n, io) ==
    IF idx = 0
    THEN [index |-> idx + 1, raw_iter |-> pos, kind |-> "ok", bytes |-> Encode(t),
          trunk |-> t, chunk_boundaries |-> boundaries, built |-> <<>>]
    ELSE IF idx >= len(boundaries)
    THEN [index |-> idx, raw_iter |-> pos, kind |-> "panic", bytes |-> <<>>,
          trunk |-> t, chunk_boundaries |-> boundaries, built |-> <<>>]
    ELSE LET end_key == EndKey(boundaries, idx)
             g == GetNextChunk(pos, end_key, n)
         IN IF io.fail
            THEN [index |-> idx + 1, raw_iter |-> g.pos, kind |-> "ok",
                  bytes |-> Encode(g.chunk), trunk |-> t,
                  chunk_boundaries |-> boundaries, built |-> <<"err", "ok">>]
            ELSE [index |-> idx + 1, raw_iter |-> g.pos, kind |-> "ok",
                  bytes |-> Encode(g.chunk), trunk |-> t,
                  chunk_boundaries |-> boundaries, built |-> <<"ok">>]

\* next_chunk that advances the index only when the leaf build succeeded.
next_chunkAdvancesAfterBuild(t, boundaries, pos, idx, n, io) ==
    IF idx = 0
    THEN [index |-> idx + 1, raw_iter |-> pos, kind |-> "ok", bytes |-> Encode(t),
          trunk |-> t, chunk_boundaries |-> boundaries, built |-> <<>>]
    ELSE IF idx >= len(boundaries)
    THEN [index |-> idx, raw_iter |-> pos, kind |-> "panic", bytes |-> <<>>,
          trunk |-> t, chunk_boundaries |-> boundaries, built |-> <<>>]
    ELSE LET end_key == EndKey(boundaries, idx)
             g == GetNextChunk(pos, end_key, n)
         IN IF io.fail
            THEN [index |-> idx, raw_iter |-> io.pos, kind |-> "builderr",
                  bytes |-> <<>>, trunk |-> t,
                  chunk_boundaries |-> boundaries, built |-> <<"err">>]
            ELSE [index |-> idx + 1, raw_iter |-> g.pos, kind |-> "ok",
                  bytes |-> Encode(g.chunk), trunk |-> t,
                  chunk_boundaries |-> boundaries, built |-> <<"ok">>]

\* next_chunk(): the fields of the producer after the call, the result, and
\* the outcomes of the leaf builds the call ran.
next_chunk(t, boundaries, pos, idx, n, io) ==
    IF idx = 0
    THEN [index |-> idx + 1, raw_iter |-> pos, kind |-> "ok", bytes |-> Encode(t),
          trunk |-> t, chunk_boundaries |-> boundaries, built |-> <<>>]
    ELSE IF idx >= len(boundaries)
    THEN [index |-> idx, raw_iter |-> pos, kind |-> "panic", bytes |-> <<>>,
          trunk |-> t, chunk_boundaries |-> boundaries, built |-> <<>>]
    ELSE LET end_key == EndKey(boundaries, idx)
             g == GetNextChunk(pos, end_key, n)
         IN IF io.fail
            THEN [index |-> idx + 1, raw_iter |-> io.pos, kind |-> "builderr",
                  bytes |-> <<>>, trunk |-> t,
                  chunk_boundaries |-> boundaries, built |-> <<"err">>]
            ELSE [index |-> idx + 1, raw_iter |-> g.pos, kind |-> "ok",
                  bytes |-> Encode(g.chunk), trunk |-> t,
                  chunk_boundaries |-> boundaries, built |-> <<"ok">>]

\* The outcomes the builder may have when next_chunk runs at idx from pos.
Outcomes(boundaries, pos, idx, n, may_fail) ==
    IF idx = 0 \/ idx >= len(boundaries) THEN {NoFail}
    ELSE BuildOutcomes(pos, EndKey(boundaries, idx), n, may_fail)

\* chunk_boundaries.get(index - 2).unwrap() of chunk() finds no key.
SeekPanics(i, boundaries) == i >= 2 /\ i - 1 > Len(boundaries)

\* chunk(i) that stores the index before it checks the bounds.
chunkSetsIndexFirst(t, boundaries, pos, idx, i, n, io) ==
    IF OutOfBounds(i, len(boundaries))
    THEN [index |-> i, raw_iter |-> pos, kind |-> "oob", bytes |-> <<>>,
          trunk |-> t, chunk_boundaries |-> boundaries, built |-> <<>>]
    ELSE IF SeekPanics(i, boundaries)
    THEN [index |-> i, raw_iter |-> pos, kind |-> "panic", bytes |-> <<>>,
          trunk |-> t, chunk_boundaries |-> boundaries, built |-> <<>>]
    ELSE next_chunk(t, boundaries, ChunkSeek(i, boundaries, pos, n), i, n, io)

\* chunk(i) on a producer with cursor pos and index idx: the fields of the
\* producer after the call, the result, and the outcomes of the leaf builds.
chunk(t, boundaries, pos, idx, i, n, io) ==
    IF OutOfBounds(i, len(boundaries))
    THEN [index |-> idx, raw_iter |-> pos, kind |-> "oob", bytes |-> <<>>,
          trunk |-> t, chunk_boundaries |-> boundaries, built |-> <<>>]
    ELSE IF SeekPanics(i, boundaries)
    THEN [index |-> i, raw_iter |-> pos, kind |-> "panic", bytes |-> <<>>,
          trunk |-> t, chunk_boundaries |-> boundaries, built |-> <<>>]
    ELSE next_chunk(t, boundaries, ChunkSeek(i, boundaries, pos, n), i, n, io)

\* The outcomes the builder may have when chunk(i) runs.
ChunkOutcomes(boundaries, pos, i, n, may_fail) ==
    IF OutOfBounds(i, len(boundaries)) \/ SeekPanics(i, boundaries) THEN {NoFail}
    ELSE Outcomes(boundaries, ChunkSeek(i, boundaries, pos, n), i, n, may_fail)

\* size_hint that reports the chunks not yet yielded.
size_hint_remaining(boundaries, idx) ==
    <<len(boundaries) - idx, len(boundaries) - idx>>

\* ChunkIter::size_hint
size_hint(boundaries, idx) == <<len(boundaries), len(boundaries)>>

\* next() that takes the iterator at index == len() as not exhausted.
ExhaustedOffByOne(idx, boundaries) == idx > len(boundaries)

\* An iterator that never ends.
ExhaustedNever(idx, boundaries) == FALSE

\* ChunkIter::next: whether the iterator is exhausted.
Exhausted(idx, boundaries) == idx >= len(boundaries)

----------------------------------------------------------------------------
(* The operations.                                                         *)

Start ==
    /\ merk \in Snapshots
    /\ st = [p \in Producers |-> "none"]
    /\ trunk = [p \in Producers |-> <<>>]
    /\ chunk_boundaries = [p \in Producers |-> <<>>]
    /\ raw_iter = [p \in Producers |-> 0]
    /\ index = [p \in Producers |-> 0]
    /\ ret = [p \in Producers |-> NoRet]
    /\ walked = [p \in Producers |-> "none"]
    /\ failed = [p \in Producers |-> FALSE]
    /\ chunked = [p \in Producers |-> FALSE]
    /\ start = [p \in Producers |-> 0]
    /\ yields = [p \in Producers |-> 0]
    /\ nones = [p \in Producers |-> 0]
    /\ built = [p \in Producers |-> <<>>]

\* One producer over a store that may fail.
Init ==
    /\ sessions = {1}
    /\ faulty \in BOOLEAN
    /\ Start

\* Two producers over the same snapshot of a healthy store.
InitPair ==
    /\ sessions = Producers
    /\ faulty = FALSE
    /\ Start

\* ChunkProducer::new(merk)
New(p) ==
    /\ p \in sessions
    /\ st[p] = "none"
    /\ \E walk_fails \in (IF faulty THEN BOOLEAN ELSE {FALSE}) :
        LET r == new(merk, walk_fails) IN
        /\ walked' = [walked EXCEPT ![p] = IF walk_fails THEN "fail" ELSE "ok"]
        /\ IF r.ok
           THEN /\ st' = [st EXCEPT ![p] = "producer"]
                /\ trunk' = [trunk EXCEPT ![p] = r.trunk]
                /\ chunk_boundaries' = [chunk_boundaries EXCEPT ![p] = r.chunk_boundaries]
                /\ raw_iter' = [raw_iter EXCEPT ![p] = r.raw_iter]
                /\ index' = [index EXCEPT ![p] = r.index]
                /\ ret' = [ret EXCEPT ![p] = Ret("new", 0, "ok", <<>>, 0, 0)]
           ELSE /\ ret' = [ret EXCEPT ![p] = Ret("new", 0, "walkerr", <<>>, 0, 0)]
                /\ UNCHANGED <<st, trunk, chunk_boundaries, raw_iter, index>>
    /\ built' = [built EXCEPT ![p] = <<>>]
    /\ UNCHANGED <<sessions, faulty, merk, failed, chunked, start, yields, nones>>

\* producer.chunk(i)
Chunk(p) ==
    /\ p \in sessions
    /\ st[p] = "producer"
    /\ \E i \in 0..(len(chunk_boundaries[p]) + MaxOver) :
       \E io \in ChunkOutcomes(chunk_boundaries[p], raw_iter[p], i, merk.n, faulty) :
            LET r == chunk(trunk[p], chunk_boundaries[p], raw_iter[p], index[p],
                           i, merk.n, io) IN
            /\ index' = [index EXCEPT ![p] = r.index]
            /\ raw_iter' = [raw_iter EXCEPT ![p] = r.raw_iter]
            /\ ret' = [ret EXCEPT ![p] = Ret("chunk", i, r.kind, r.bytes, 0, 0)]
            /\ st' = [st EXCEPT ![p] = IF r.kind = "panic" THEN "panicked" ELSE @]
            /\ failed' = [failed EXCEPT ![p] =
                              IF r.kind = "oob" THEN @ ELSE r.kind = "builderr"]
            /\ chunked' = [chunked EXCEPT ![p] = IF r.kind = "oob" THEN @ ELSE TRUE]
            /\ trunk' = [trunk EXCEPT ![p] = r.trunk]
            /\ chunk_boundaries' = [chunk_boundaries EXCEPT ![p] = r.chunk_boundaries]
            /\ built' = [built EXCEPT ![p] = r.built]
    /\ UNCHANGED <<sessions, faulty, merk, walked, start, yields, nones>>

\* producer.len()
LenCall(p) ==
    /\ p \in sessions
    /\ st[p] = "producer"
    /\ ret' = [ret EXCEPT ![p] = Ret("len", 0, "num", <<>>, len(chunk_boundaries[p]), 0)]
    /\ built' = [built EXCEPT ![p] = <<>>]
    /\ UNCHANGED <<sessions, faulty, merk, st, trunk, chunk_boundaries, raw_iter, index,
                   walked, failed, chunked, start, yields, nones>>

\* producer.into_iter()
IntoIter(p) ==
    /\ p \in sessions
    /\ st[p] = "producer"
    /\ st' = [st EXCEPT ![p] = "iter"]
    /\ start' = [start EXCEPT ![p] = index[p]]
    /\ ret' = [ret EXCEPT ![p] = Ret("into_iter", 0, "ok", <<>>, 0, 0)]
    /\ built' = [built EXCEPT ![p] = <<>>]
    /\ UNCHANGED <<sessions, faulty, merk, trunk, chunk_boundaries, raw_iter, index,
                   walked, failed, chunked, yields, nones>>

\* iter.size_hint()
SizeHint(p) ==
    /\ p \in sessions
    /\ st[p] = "iter"
    /\ LET h == size_hint(chunk_boundaries[p], index[p]) IN
       ret' = [ret EXCEPT ![p] = Ret("size_hint", 0, "hint", <<>>, h[1], h[2])]
    /\ built' = [built EXCEPT ![p] = <<>>]
    /\ UNCHANGED <<sessions, faulty, merk, st, trunk, chunk_boundaries, raw_iter, index,
                   walked, failed, chunked, start, yields, nones>>

\* iter.next()
IterNext(p) ==
    /\ p \in sessions
    /\ st[p] = "iter"
    /\ IF Exhausted(index[p], chunk_boundaries[p])
       THEN /\ nones[p] < MaxNones
            /\ ret' = [ret EXCEPT ![p] = Ret("next", index[p], "none", <<>>, 0, 0)]
            /\ nones' = [nones EXCEPT ![p] = @ + 1]
            /\ built' = [built EXCEPT ![p] = <<>>]
            /\ UNCHANGED <<st, trunk, chunk_boundaries, raw_iter, index, failed, yields>>
       ELSE \E io \in Outcomes(chunk_boundaries[p], raw_iter[p], index[p], merk.n, faulty) :
                LET r == next_chunk(trunk[p], chunk_boundaries[p], raw_iter[p],
                                    index[p], merk.n, io) IN
                /\ index' = [index EXCEPT ![p] = r.index]
                /\ raw_iter' = [raw_iter EXCEPT ![p] = r.raw_iter]
                /\ ret' = [ret EXCEPT ![p] = Ret("next", index[p], r.kind, r.bytes, 0, 0)]
                /\ st' = [st EXCEPT ![p] = IF r.kind = "panic" THEN "panicked" ELSE @]
                /\ failed' = [failed EXCEPT ![p] = @ \/ r.kind = "builderr"]
                /\ yields' = [yields EXCEPT ![p] = @ + 1]
                /\ trunk' = [trunk EXCEPT ![p] = r.trunk]
                /\ chunk_boundaries' = [chunk_boundaries EXCEPT ![p] = r.chunk_boundaries]
                /\ built' = [built EXCEPT ![p] = r.built]
                /\ UNCHANGED nones
    /\ UNCHANGED <<sessions, faulty, merk, walked, chunked, start>>

Next ==
    \E p \in Producers :
        \/ New(p)
        \/ Chunk(p)
        \/ LenCall(p)
        \/ IntoIter(p)
        \/ SizeHint(p)
        \/ IterNext(p)

Spec == Init /\ [][Next]_vars

SpecPair == InitPair /\ [][Next]_vars

----------------------------------------------------------------------------
(* Properties.                                                             *)

\* A producer that returned chunk bytes from its last call.
GotChunk(p, op, i) ==
    /\ ret[p].op = op
    /\ ret[p].kind = "ok"
    /\ ret[p].idx = i

Indices == 0..(2 * MaxEntries + 2)

\* The keys of the snapshot strictly between two keys, ascending
\* (NoKey = no bound on that side).
KeysBetween(lo_key, hi_key, n) ==
    LET InRange(k) == /\ (lo_key # NoKey => k > lo_key)
                      /\ (hi_key # NoKey => k < hi_key)
    IN SelectSeq([j \in 1..n |-> KeyAt(j)], InRange)

\* C1: chunk(i) returns the same bytes whatever successful calls came
\* before it: two producers over the same snapshot, each after its own
\* sequence of chunk calls, return equal bytes for equal indices.
C1_ChunkDependsOnIndexOnly ==
    \A p \in sessions, q \in sessions, i \in Indices :
        GotChunk(p, "chunk", i) /\ GotChunk(q, "chunk", i)
            => ret[p].bytes = ret[q].bytes

C1_Witness ==
    /\ GotChunk(1, "chunk", 3)
    /\ GotChunk(2, "chunk", 3)
    /\ ret[1].bytes # <<>>
    /\ Len(chunk_boundaries[1]) = 3

\* C2: the bytes of random access chunk(i) equal the i-th item of the
\* sequential iteration of a fresh producer over the same snapshot.
C2_RandomAccessEqualsSequential ==
    \A p \in sessions, q \in sessions, i \in Indices :
        /\ GotChunk(p, "chunk", i)
        /\ GotChunk(q, "next", i)
        /\ ~chunked[q]
        /\ start[q] = 0
        => ret[p].bytes = ret[q].bytes

C2_Witness ==
    /\ GotChunk(1, "chunk", 3)
    /\ GotChunk(2, "next", 3)
    /\ ~chunked[2]
    /\ yields[2] = 4
    /\ ret[1].bytes # <<>>

\* C3: chunk(index) with index >= len() returns the out-of-bounds error; it
\* neither panics nor returns bytes.
C3_OutOfBoundsIsAnError ==
    \A p \in sessions :
        ret[p].op = "chunk" /\ ret[p].idx >= len(chunk_boundaries[p])
            => ret[p].kind = "oob" /\ st[p] = "producer"

C3_Witness ==
    /\ ret[1].op = "chunk"
    /\ ret[1].kind = "oob"
    /\ ret[1].idx = len(chunk_boundaries[1])
    /\ index[1] = 3

\* C4: len() returns a number, 1 when there are no boundary keys and their
\* number plus 2 otherwise; 1 for a tree that fits the trunk; never 0 or 2.
C4_LenFormula ==
    \A p \in sessions :
        st[p] \in {"producer", "iter"} =>
            LET l == len(chunk_boundaries[p]) IN
            /\ l \notin {0, 2}
            /\ (chunk_boundaries[p] = <<>> => l = 1)
            /\ (chunk_boundaries[p] # <<>> => l = Len(chunk_boundaries[p]) + 2)
            /\ (~Walk(merk).has_more => l = 1)
            /\ (ret[p].op = "len" => ret[p].kind = "num" /\ ret[p].num = l)

C4_Witness ==
    /\ ret[1].op = "len"
    /\ ret[1].num = 1
    /\ merk.n = MaxEntries
    /\ index[1] = 1

C6_SizeHintIsTotal ==
    \A p \in sessions :
        ret[p].op = "size_hint" =>
            /\ ret[p].kind = "hint"
            /\ ret[p].num = len(chunk_boundaries[p])
            /\ ret[p].hi = len(chunk_boundaries[p])
            /\ ret[p].num = (IF Walk(merk).has_more THEN Pow2(merk.cut) + 1 ELSE 1)

C6_Witness ==
    /\ ret[1].op = "size_hint"
    /\ ret[1].num = 5
    /\ yields[1] = 5
    /\ nones[1] > 0

\* The key/value pairs of the Push(KV) operations of ops, in order.
RECURSIVE KVPairs(_)
KVPairs(ops) ==
    IF ops = <<>> THEN <<>>
    ELSE (IF Head(ops).op = "Push" /\ Head(ops).node = "KV"
          THEN <<<<Head(ops).key, Head(ops).value>>>> ELSE <<>>) \o KVPairs(Tail(ops))

\* The hashes of the Push(Hash) operations of ops, in order.
RECURSIVE HashesOf(_)
HashesOf(ops) ==
    IF ops = <<>> THEN <<>>
    ELSE (IF Head(ops).op = "Push" /\ Head(ops).node = "Hash"
          THEN <<Head(ops).hash>> ELSE <<>>) \o HashesOf(Tail(ops))

\* The entries of the snapshot, ascending.
AllEntries(n) == [j \in 1..n |-> <<KeyAt(j), ValueAt(j)>>]

\* The entries of the subtree whose hash is h, ascending.
EntriesOfSubtree(h) ==
    LET lo == h \div 100
        hi == h % 100
    IN [j \in 1..(hi - lo + 1) |-> <<KeyAt(lo + j - 1), ValueAt(lo + j - 1)>>]

Range(seq) == {seq[j] : j \in 1..Len(seq)}

\* The entries of chunk(i), chunk(i+1), .., chunk(len()-1), called in this
\* order on a producer with cursor pos and index idx, concatenated.
RECURSIVE GatherLeaves(_, _, _, _, _, _)
GatherLeaves(t, boundaries, pos, idx, i, n) ==
    IF i >= len(boundaries) THEN <<>>
    ELSE LET r == chunk(t, boundaries, pos, idx, i, n, NoFail) IN
         KVPairs(Decode(r.bytes))
         \o GatherLeaves(t, boundaries, r.raw_iter, r.index, i + 1, n)

LeafEntries(p) ==
    GatherLeaves(trunk[p], chunk_boundaries[p], raw_iter[p], index[p], 1, merk.n)

TrunkEntries(p) ==
    KVPairs(Decode(chunk(trunk[p], chunk_boundaries[p], raw_iter[p], index[p],
                         0, merk.n, NoFail).bytes))

\* C7 as stated: the leaf entries of chunk(1), .., chunk(len()-1),
\* concatenated in index order, are exactly the sorted entries of the tree.
C7_LeavesAreWholeTree ==
    \A p \in sessions :
        st[p] = "producer" => LeafEntries(p) = AllEntries(merk.n)

\* C7 as amended: the leaf entries of chunk(1), .., chunk(len()-1),
\* concatenated in index order, are in ascending key order the entries of
\* the tree that the trunk, chunk(0), does not push with key and value; the
\* trunk's entries and the leaf entries together are the entries of the tree.
C7_LeavesAndTrunkAreWholeTree ==
    \A p \in sessions :
        st[p] = "producer" =>
            LET NotInTrunk(e) == e \notin Range(TrunkEntries(p)) IN
            /\ LeafEntries(p) = SelectSeq(AllEntries(merk.n), NotInTrunk)
            /\ Range(TrunkEntries(p)) \cup Range(LeafEntries(p)) = Range(AllEntries(merk.n))
            /\ (chunk_boundaries[p] # <<>> =>
                    Range(TrunkEntries(p)) =
                        {e \in Range(AllEntries(merk.n)) : e[1] \in Range(chunk_boundaries[p])})

C7_Witness ==
    /\ GotChunk(1, "chunk", 4)
    /\ Len(chunk_boundaries[1]) = 3
    /\ index[1] = 5
    /\ Len(LeafEntries(1)) = merk.n - 3

\* A producer that returned chunk bytes for index i from chunk or from next.
Produced(p, i) == GotChunk(p, "chunk", i) \/ GotChunk(p, "next", i)

\* The fields of one producer and what it returned last.
ProducerState(p) ==
    <<st[p], trunk[p], chunk_boundaries[p], raw_iter[p], index[p], ret[p]>>

\* C8: two producers over the same tree state return equal bytes for equal
\* indices in every interleaving of their calls, and a call on one producer
\* changes no field of the other.
C8_ProducersIndependent ==
    /\ [](\A p \in sessions, q \in sessions, i \in Indices :
            Produced(p, i) /\ Produced(q, i) => ret[p].bytes = ret[q].bytes)
    /\ [][\A p \in sessions, q \in sessions :
            p # q /\ ProducerState(p)' # ProducerState(p)
                => ProducerState(q)' = ProducerState(q)]_vars

C8_Witness ==
    /\ GotChunk(1, "chunk", 1)
    /\ GotChunk(2, "next", 1)
    /\ chunked[2]
    /\ start[2] = 1
    /\ Len(chunk_boundaries[1]) = 3
    /\ ret[1].bytes # <<>>

\* C9: when the trunk elides subtrees, there are as many leaf chunks as
\* elided subtrees, and the k-th leaf chunk holds the entries of the k-th
\* elided subtree in key order.
C9_LeafChunksMatchElidedSubtrees ==
    \A p \in sessions :
        st[p] \in {"producer", "iter"} /\ Walk(merk).has_more =>
            LET hs == HashesOf(trunk[p]) IN
            /\ len(chunk_boundaries[p]) - 1 = Len(hs)
            /\ \A k \in 1..Len(hs) :
                GotChunk(p, "chunk", k) \/ (GotChunk(p, "next", k) /\ ~failed[p])
                    => KVPairs(Decode(ret[p].bytes)) = EntriesOfSubtree(hs[k])

C9_Witness ==
    /\ GotChunk(1, "next", 4)
    /\ ~failed[1]
    /\ Len(HashesOf(trunk[1])) = 4
    /\ Len(KVPairs(Decode(ret[1].bytes))) >= 1

\* C10: new() fails, creating no producer, exactly when the trunk walk
\* fails; otherwise the producer has index 0 and its cursor on the first
\* entry; over an empty tree the trunk and the boundary keys are empty,
\* len() is 1 and chunk(0) is the encoding of the empty sequence.
C10_NewFailsOnlyWithTheWalk ==
    \A p \in sessions :
        /\ (ret[p].op = "new" =>
                /\ (ret[p].kind = "walkerr" <=> walked[p] = "fail")
                /\ (ret[p].kind = "ok" <=> walked[p] = "ok")
                /\ (ret[p].kind = "walkerr" => st[p] = "none")
                /\ (ret[p].kind = "ok" =>
                        /\ st[p] = "producer"
                        /\ index[p] = 0
                        /\ raw_iter[p] = 1
                        /\ (merk.n > 0 => Valid(raw_iter[p], merk.n))))
        /\ (st[p] = "none" => walked[p] # "ok")
        /\ (st[p] # "none" /\ merk.n = 0 =>
                /\ trunk[p] = <<>>
                /\ chunk_boundaries[p] = <<>>
                /\ len(chunk_boundaries[p]) = 1
                /\ (ret[p].op = "chunk" /\ ret[p].idx = 0 =>
                        ret[p].kind = "ok" /\ ret[p].bytes = Encode(<<>>)))

C10_Witness ==
    /\ merk.n = 0
    /\ faulty
    /\ GotChunk(1, "chunk", 0)
    /\ ret[1].bytes = <<>>
    /\ index[1] = 1

\* The keys of the range of chunk i: strictly between the boundary key
\* before it and the boundary key that ends it.
RangeKeys(p, i) ==
    LET b == chunk_boundaries[p]
        lo_key == IF i >= 2 /\ i - 1 <= Len(b) THEN b[i - 1] ELSE NoKey
        hi_key == IF i >= 1 /\ i <= Len(b) THEN b[i] ELSE NoKey
    IN KeysBetween(lo_key, hi_key, merk.n)

\* The last call of p produced chunk i from a cursor that no failed build
\* had left behind.
ProducedSound(p, i) ==
    GotChunk(p, "chunk", i) \/ (GotChunk(p, "next", i) /\ ~failed[p])

\* C11: after chunk(i) or a sequential step has produced chunk i, with
\* i < len() - 1, index is i + 1 and the cursor is on the first entry of the
\* range of chunk i + 1: the first entry of the tree when i = 0, the entry
\* right after the boundary key that ends chunk i otherwise.
C11_CursorAtStartOfNextChunk ==
    \A p \in sessions, i \in Indices :
        ProducedSound(p, i) /\ i < len(chunk_boundaries[p]) - 1 =>
            /\ index[p] = i + 1
            /\ Valid(raw_iter[p], merk.n)
            /\ raw_iter[p] = (IF i = 0 THEN 1
                              ELSE Seek(chunk_boundaries[p][i], merk.n) + 1)
            /\ RangeKeys(p, i + 1) # <<>>
            /\ KeyAt(raw_iter[p]) = Head(RangeKeys(p, i + 1))

C11_Witness ==
    /\ GotChunk(1, "chunk", 2)
    /\ Len(chunk_boundaries[1]) = 3
    /\ index[1] = 3
    /\ KeyAt(raw_iter[1]) > chunk_boundaries[1][2]

\* C12 as stated: after chunk(i) or a sequential step has produced the last
\* chunk, i = len() - 1, the cursor is exhausted and index is len(), for
\* every tree.
C12_CursorExhaustedAfterLastChunk ==
    \A p \in sessions, i \in Indices :
        ProducedSound(p, i) /\ i = len(chunk_boundaries[p]) - 1 =>
            /\ index[p] = len(chunk_boundaries[p])
            /\ ~Valid(raw_iter[p], merk.n)

\* C12 as amended: after the last chunk index is len(); the cursor is
\* exhausted when the last chunk is a leaf chunk, and is on the first entry
\* of the tree when the only chunk is the trunk of a tree that is not empty.
C12_CursorAfterLastChunk ==
    \A p \in sessions, i \in Indices :
        ProducedSound(p, i) /\ i = len(chunk_boundaries[p]) - 1 =>
            /\ index[p] = len(chunk_boundaries[p])
            /\ (i >= 1 => ~Valid(raw_iter[p], merk.n))
            /\ (i = 0 => raw_iter[p] = 1)
            /\ (i = 0 /\ merk.n > 0 => Valid(raw_iter[p], merk.n))
            /\ (i = 0 /\ merk.n = 0 => ~Valid(raw_iter[p], merk.n))

C12_Witness ==
    /\ GotChunk(1, "chunk", 0)
    /\ len(chunk_boundaries[1]) = 1
    /\ merk.n = MaxEntries
    /\ index[1] = 1
    /\ raw_iter[1] = 1

\* C13: no sequence of new, len, chunk(i) for any i, into_iter, size_hint
\* and next, next after the end of the iteration included, reaches the
\* panic of next_chunk: no call panics and no producer is left panicked.
C13_NextChunkPanicUnreachable ==
    \A p \in sessions :
        /\ st[p] # "panicked"
        /\ ret[p].kind # "panic"
        /\ (st[p] = "iter" /\ ret[p].op = "next" /\ index[p] >= len(chunk_boundaries[p])
                /\ nones[p] > 0 => ret[p].kind = "none")

C13_Witness ==
    /\ st[1] = "iter"
    /\ chunked[1]
    /\ start[1] = len(chunk_boundaries[1])
    /\ nones[1] = MaxNones
    /\ ret[1].op = "next"
    /\ ret[1].kind = "none"
    /\ Len(chunk_boundaries[1]) = 3

\* C14: leaf chunk i, 1 <= i <= len() - 1, holds exactly the entries whose
\* keys are strictly between the boundary key before it (the start of the
\* tree for i = 1) and the boundary key that ends it (the end of the tree
\* for i = len() - 1); no leaf chunk holds a boundary key and the ranges of
\* two leaf chunks share no entry.
C14_LeafChunkIsItsRange ==
    \A p \in sessions :
        st[p] \in {"producer", "iter"} =>
            LET b == chunk_boundaries[p]
                InChunk(e) == e[1] \in Range(RangeKeys(p, ret[p].idx))
            IN
            /\ \A i \in 1..(len(b) - 1) :
                 GotChunk(p, "chunk", i) =>
                    /\ KVKeys(Decode(ret[p].bytes)) = RangeKeys(p, i)
                    /\ KVPairs(Decode(ret[p].bytes)) = SelectSeq(AllEntries(merk.n), InChunk)
                    /\ Range(KVKeys(Decode(ret[p].bytes))) \cap Range(b) = {}
                    /\ (i = 1 /\ merk.n > 0 => Head(RangeKeys(p, i)) = KeyAt(1))
                    /\ (i = len(b) - 1 => RangeKeys(p, i)[Len(RangeKeys(p, i))] = KeyAt(merk.n))
            /\ \A i \in 1..(len(b) - 1), j \in 1..(len(b) - 1) :
                 i # j => Range(RangeKeys(p, i)) \cap Range(RangeKeys(p, j)) = {}

C14_Witness ==
    /\ GotChunk(1, "chunk", 2)
    /\ Len(chunk_boundaries[1]) = 3
    /\ Len(KVKeys(Decode(ret[1].bytes))) >= 1
    /\ merk.n = MaxEntries

\* The keys of seq are strictly ascending.
StrictlyAscending(seq) ==
    \A j \in 1..(Len(seq) - 1) : seq[j] < seq[j + 1]

\* C15: a producer's boundary keys are, when the walk reported elided
\* subtrees, the keys of the Push(KV) operations of the trunk in trunk
\* order, strictly ascending and keys of the snapshot; they are empty when
\* the walk reported none, even when the trunk pushes nodes; and they are
\* empty exactly when the trunk elides no subtree.
C15_BoundariesAreTrunkKeys ==
    \A p \in sessions :
        st[p] \in {"producer", "iter"} =>
            LET w == Walk(merk)
                b == chunk_boundaries[p]
            IN
            /\ trunk[p] = w.trunk
            /\ (w.has_more =>
                    /\ b = KVKeys(trunk[p])
                    /\ b # <<>>
                    /\ StrictlyAscending(b)
                    /\ Range(b) \subseteq {KeyAt(j) : j \in 1..merk.n})
            /\ (~w.has_more => b = <<>>)
            /\ (b = <<>> <=> HashesOf(trunk[p]) = <<>>)

C15_Witness ==
    /\ st[1] = "producer"
    /\ ~Walk(merk).has_more
    /\ KVKeys(trunk[1]) # <<>>
    /\ chunk_boundaries[1] = <<>>
    /\ GotChunk(1, "chunk", 0)

\* C16: once a producer is built, no call changes its trunk or its boundary
\* keys, so len() is the same in every state of the producer and of the
\* iterator made from it.
C16_TrunkAndBoundariesFixed ==
    [][\A p \in sessions :
            st[p] # "none" =>
                /\ trunk'[p] = trunk[p]
                /\ chunk_boundaries'[p] = chunk_boundaries[p]
                /\ len(chunk_boundaries'[p]) = len(chunk_boundaries[p])]_vars

C16_Witness ==
    /\ st[1] = "iter"
    /\ chunked[1]
    /\ failed[1]
    /\ yields[1] >= 2
    /\ nones[1] >= 1
    /\ Len(chunk_boundaries[1]) = 3
    /\ chunk_boundaries[1] = KVKeys(trunk[1])

\* C17: a leaf build that fails makes the call return that failure: chunk(i)
\* returns the error, next() returns Some(error) and the iteration goes on;
\* the call runs the build once and does not panic.
C17_BuildFailureIsReturned ==
    \A p \in sessions :
        /\ Len(built[p]) <= 1
        /\ (built[p] = <<"err">> <=> ret[p].kind = "builderr")
        /\ (built[p] = <<"err">> =>
                /\ ret[p].op \in {"chunk", "next"}
                /\ ret[p].bytes = <<>>
                /\ ret[p].idx >= 1
                /\ index[p] = ret[p].idx + 1
                /\ st[p] = (IF ret[p].op = "chunk" THEN "producer" ELSE "iter")
                /\ (ret[p].op = "next" => yields[p] >= 1))
        /\ (built[p] = <<"ok">> => ret[p].kind = "ok")

C17_Witness ==
    /\ st[1] = "iter"
    /\ ret[1].op = "next"
    /\ ret[1].kind = "builderr"
    /\ built[1] = <<"err">>
    /\ ret[1].idx = 2
    /\ index[1] = 3

\* C18: a chunk(i) call that fails with the out-of-bounds error leaves the
\* index and the cursor of the producer as they were.
C18_OutOfBoundsChangesNothing ==
    [][\A p \in sessions :
            ret'[p].op = "chunk" /\ ret'[p].kind = "oob" =>
                /\ index'[p] = index[p]
                /\ raw_iter'[p] = raw_iter[p]
                /\ st'[p] = st[p]
                /\ failed'[p] = failed[p]]_vars

C18_Witness ==
    /\ ret[1].op = "chunk"
    /\ ret[1].kind = "oob"
    /\ ret[1].idx > len(chunk_boundaries[1])
    /\ index[1] = 2
    /\ raw_iter[1] > 1
    /\ Valid(raw_iter[1], merk.n)

\* C19: every next() that returns Some, a chunk or an error, advances the
\* index by exactly one, and it is the item of the index before the call;
\* so an iterator started at index k returns at most len() - k items before
\* it returns None, failed builds included, and no index is tried twice.
C19_EveryItemAdvancesTheIndex ==
    /\ [](\A p \in sessions :
            st[p] \in {"iter", "panicked"} =>
                /\ yields[p] <= (IF start[p] <= len(chunk_boundaries[p])
                                 THEN len(chunk_boundaries[p]) - start[p] ELSE 0)
                /\ index[p] = start[p] + yields[p])
    /\ [][\A p \in sessions :
            yields'[p] # yields[p] =>
                /\ yields'[p] = yields[p] + 1
                /\ index'[p] = index[p] + 1
                /\ ret'[p].op = "next"
                /\ ret'[p].kind \in {"ok", "builderr"}
                /\ ret'[p].idx = index[p]
                /\ (ret[p].op = "next" => ret'[p].idx = ret[p].idx + 1)]_vars

C19_Witness ==
    /\ st[1] = "iter"
    /\ start[1] = 1
    /\ failed[1]
    /\ yields[1] = len(chunk_boundaries[1]) - 1
    /\ yields[1] = 4
    /\ nones[1] >= 1
    /\ ret[1].kind = "none"

====
